---- MODULE Spec2Model ----
(***************************************************************************)
(* The read-only query layer of odgi-ffi (src/src/odgi.cpp) over a loaded  *)
(* odgi::graph_t.  The graph is the state; it never changes after load.    *)
(* Every query is a pure read, so a behaviour is a loaded graph followed   *)
(* by one query call whose arguments and result are recorded in op, args,  *)
(* ret and fault.                                                          *)
(*                                                                         *)
(* Path names are byte strings, modelled as sequences of byte values so    *)
(* that std::sort's lexicographic order is computed, not assumed.          *)
(* Lengths stay far below 2^64 within the bounds, so uint64_t arithmetic   *)
(* is plain integer arithmetic here.                                       *)
(***************************************************************************)
EXTENDS Integers, Sequences, FiniteSets

VARIABLES nodes, edges, paths, op, args, ret, fault

vars == <<nodes, edges, paths, op, args, ret, fault>>

graph == <<nodes, edges, paths>>

-----------------------------------------------------------------------------
(* Bounds of the model. *)

MaxNode == 2

MaxLen == 2

MaxSteps == 3

MaxOther == 2

MaxEdges == 2

MaxFew == 1

MemberNodes == 1

NodeIds == 1..MaxNode

\* identifiers a caller may pass: MaxNode + 1 is in no graph
QueryIds == 1..(MaxNode + 1)

\* MaxLen * MaxSteps is the longest path of the model
Offsets == 0..(MaxLen * MaxSteps)

\* "a", "ab"
Names == {<<97>>, <<97, 98>>}

HandlesOf(ids) == [id : ids, rev : BOOLEAN]

RECURSIVE PolyA(_)
PolyA(n) == IF n = 0 THEN <<>> ELSE <<"A">> \o PolyA(n - 1)

SeqsUpTo(S, n) == UNION {[1..k -> S] : k \in 0..n}

-----------------------------------------------------------------------------
(* The graph store (odgi::graph_t), an external collaborator: the          *)
(* primitives the wrapper calls.  A primitive that dereferences a node or  *)
(* a path needs it to exist; on an absent one the real store's result is   *)
(* unspecified.  The model returns a placeholder there and every wrapper   *)
(* result carries a fault flag that is set when such a call is made, so    *)
(* no property reads a placeholder.                                        *)

has_node(node_id) == node_id \in DOMAIN nodes

has_path(path_name) == \E i \in 1..Len(paths) : paths[i].name = path_name

get_handle(node_id, is_reverse) == [id |-> node_id, rev |-> is_reverse]

get_id(handle) == handle.id

get_is_reverse(handle) == handle.rev

flip(handle) == [id |-> handle.id, rev |-> ~handle.rev]

get_sequence(handle) == IF has_node(handle.id) THEN nodes[handle.id] ELSE <<>>

get_length(handle) == IF has_node(handle.id) THEN Len(nodes[handle.id]) ELSE 0

\* index of the path in the store, 0 for a name the store does not hold
get_path_handle(path_name) ==
    IF has_path(path_name)
    THEN CHOOSE i \in 1..Len(paths) : paths[i].name = path_name
    ELSE 0

get_path_name(path) == paths[path].name

\* the steps of a path, in path order; a step is (path, rank)
for_each_step_in_path(path) ==
    IF path \in 1..Len(paths)
    THEN [k \in 1..Len(paths[path].steps) |-> [path |-> path, rank |-> k]]
    ELSE <<>>

get_handle_of_step(step) == paths[step.path].steps[step.rank]

get_path_handle_of_step(step) == step.path

has_next_step(step) == step.rank < Len(paths[step.path].steps)

get_next_step(step) == [path |-> step.path, rank |-> step.rank + 1]

RECURSIVE StepsOnNode(_, _, _)
StepsOnNode(path, rank, node_id) ==
    IF path > Len(paths) THEN <<>>
    ELSE IF rank > Len(paths[path].steps) THEN StepsOnNode(path + 1, 1, node_id)
    ELSE (IF paths[path].steps[rank].id = node_id
          THEN <<[path |-> path, rank |-> rank]>>
          ELSE <<>>) \o StepsOnNode(path, rank + 1, node_id)

\* every step on the handle's node, whatever the step's orientation
for_each_step_on_handle(handle) == StepsOnNode(1, 1, handle.id)

RECURSIVE FollowFrom(_, _, _)
FollowFrom(i, handle, go_left) ==
    IF i > Len(edges) THEN <<>>
    ELSE LET e == edges[i]
             hit == IF go_left
                    THEN IF e.to = handle THEN <<e.from>>
                         ELSE IF flip(e.from) = handle THEN <<flip(e.to)>>
                         ELSE <<>>
                    ELSE IF e.from = handle THEN <<e.to>>
                         ELSE IF flip(e.to) = handle THEN <<flip(e.from)>>
                         ELSE <<>>
         IN  hit \o FollowFrom(i + 1, handle, go_left)

\* the handles across the edges on the right (go_left = FALSE) or the left
\* side of handle, one per stored edge, in store order; an edge (a, b) is
\* the same edge as (flip(b), flip(a))
follow_edges(handle, go_left) == FollowFrom(1, handle, go_left)

-----------------------------------------------------------------------------
(* Results. *)

\* a value returned without touching the store
Return(v) == [val |-> v, fault |-> FALSE]

\* a value computed by store primitives that dereference the given nodes
\* and paths
Deref(node_ids, path_names, v) ==
    [val |-> v,
     fault |-> (\E n \in node_ids : ~has_node(n))
               \/ (\E p \in path_names : ~has_path(p))]

\* std::unique_ptr<PathPosition>: <<>> is nullptr
nullptr == <<>>

-----------------------------------------------------------------------------
(* graph_project *)

\* a mirror that is one off
step_position_off_by_one(handle, node_len, offset_in_step) ==
    [node_id |-> get_id(handle),
     offset |-> IF get_is_reverse(handle)
                THEN node_len - offset_in_step
                ELSE offset_in_step,
     is_forward |-> ~get_is_reverse(handle)]

\* the PathPosition built for the step that holds the offset
step_position(handle, node_len, offset_in_step) ==
    [node_id |-> get_id(handle),
     offset |-> IF get_is_reverse(handle)
                THEN node_len - 1 - offset_in_step
                ELSE offset_in_step,
     is_forward |-> ~get_is_reverse(handle)]

\* the first pass: path_len += length of each step's handle
RECURSIVE project_path_len(_, _, _)
project_path_len(steps, k, path_len) ==
    IF k > Len(steps) THEN path_len
    ELSE project_path_len(steps, k + 1,
                          path_len + get_length(get_handle_of_step(steps[k])))

\* a range test that also turns away the last offset of the path
project_out_of_range_early(pos, path_len) == pos + 1 >= path_len

project_out_of_range(pos, path_len) == pos >= path_len

\* the second pass: once found_pos is set every later step is skipped
RECURSIVE project_scan(_, _, _, _, _)
project_scan(steps, k, pos, current_pos, found_pos) ==
    IF k > Len(steps) THEN found_pos
    ELSE IF found_pos # nullptr
         THEN project_scan(steps, k + 1, pos, current_pos, found_pos)
    ELSE LET handle == get_handle_of_step(steps[k])
             node_len == get_length(handle)
         IN  project_scan(steps, k + 1, pos, current_pos + node_len,
                 IF pos < current_pos + node_len
                 THEN <<step_position(handle, node_len, pos - current_pos)>>
                 ELSE found_pos)

graph_project(path_name, pos) ==
    IF ~has_path(path_name) THEN Return(nullptr)
    ELSE LET path == get_path_handle(path_name)
             steps == for_each_step_in_path(path)
             path_len == project_path_len(steps, 1, 0)
         IN  IF project_out_of_range(pos, path_len)
             THEN Deref({}, {path_name}, nullptr)
             ELSE Deref({}, {path_name}, project_scan(steps, 1, pos, 0, nullptr))

-----------------------------------------------------------------------------
(* graph_get_node_sequence, graph_get_node_len *)

graph_get_node_sequence(node_id) ==
    IF ~has_node(node_id) THEN Return(<<>>)
    ELSE Deref({node_id}, {}, get_sequence(get_handle(node_id, FALSE)))

graph_get_node_len(node_id) ==
    IF ~has_node(node_id) THEN Return(0)
    ELSE Deref({node_id}, {}, get_length(get_handle(node_id, FALSE)))

-----------------------------------------------------------------------------
(* graph_get_successors, graph_get_predecessors *)

\* a neighbour flag that copies the reverse bit
successor_edge_raw_flag(next, via_forward) ==
    <<get_id(next), via_forward, get_is_reverse(next)>>

successor_edge(next, via_forward) ==
    <<get_id(next), via_forward, ~get_is_reverse(next)>>

\* the flags in the order the successor descriptor has them
predecessor_edge_swapped(prev, via_forward) ==
    <<get_id(prev), via_forward, ~get_is_reverse(prev)>>

predecessor_edge(prev, via_forward) ==
    <<get_id(prev), ~get_is_reverse(prev), via_forward>>

\* edges.push_back for each handle the store visits
RECURSIVE push_successors(_, _, _, _)
push_successors(edge_list, found, k, via_forward) ==
    IF k > Len(found) THEN edge_list
    ELSE push_successors(Append(edge_list, successor_edge(found[k], via_forward)),
                         found, k + 1, via_forward)

RECURSIVE push_predecessors(_, _, _, _)
push_predecessors(edge_list, found, k, via_forward) ==
    IF k > Len(found) THEN edge_list
    ELSE push_predecessors(Append(edge_list, predecessor_edge(found[k], via_forward)),
                           found, k + 1, via_forward)

graph_get_successors(node_id) ==
    IF ~has_node(node_id) THEN Return(<<>>)
    ELSE LET handle_fwd == get_handle(node_id, FALSE)
             handle_rev == get_handle(node_id, TRUE)
             fwd == push_successors(<<>>, follow_edges(handle_fwd, FALSE), 1, TRUE)
         IN  Deref({node_id}, {},
                   push_successors(fwd, follow_edges(handle_rev, FALSE), 1, FALSE))

graph_get_predecessors(node_id) ==
    IF ~has_node(node_id) THEN Return(<<>>)
    ELSE LET handle_fwd == get_handle(node_id, FALSE)
             handle_rev == get_handle(node_id, TRUE)
             fwd == push_predecessors(<<>>, follow_edges(handle_fwd, TRUE), 1, TRUE)
         IN  Deref({node_id}, {},
                   push_predecessors(fwd, follow_edges(handle_rev, TRUE), 1, FALSE))

-----------------------------------------------------------------------------
(* graph_get_paths_on_node *)

RECURSIVE push_path_names(_, _, _)
push_path_names(names, steps, k) ==
    IF k > Len(steps) THEN names
    ELSE push_path_names(
             Append(names, get_path_name(get_path_handle_of_step(steps[k]))),
             steps, k + 1)

\* a visitor that keeps only the steps on the forward handle
graph_get_paths_on_node_forward_only(node_id) ==
    IF ~has_node(node_id) THEN Return(<<>>)
    ELSE LET handle == get_handle(node_id, FALSE)
             on_handle == SelectSeq(for_each_step_on_handle(handle),
                                    LAMBDA st : get_handle_of_step(st) = handle)
         IN  Deref({node_id}, {}, push_path_names(<<>>, on_handle, 1))

graph_get_paths_on_node(node_id) ==
    IF ~has_node(node_id) THEN Return(<<>>)
    ELSE LET handle == get_handle(node_id, FALSE)
         IN  Deref({node_id}, {},
                   push_path_names(<<>>, for_each_step_on_handle(handle), 1))

-----------------------------------------------------------------------------
(* graph_get_next_node_on_path *)

\* a match on the forward handle only
step_matches_forward_only(current_handle, target_handle, target_handle_rev) ==
    current_handle = target_handle

step_matches(current_handle, target_handle, target_handle_rev) ==
    current_handle = target_handle \/ current_handle = target_handle_rev

\* the step after the one that set found_step ends the iteration
RECURSIVE next_node_scan(_, _, _, _, _)
next_node_scan(steps, k, target_handle, target_handle_rev, found_step) ==
    IF k > Len(steps) THEN -1
    ELSE IF found_step THEN get_id(get_handle_of_step(steps[k]))
    ELSE next_node_scan(steps, k + 1, target_handle, target_handle_rev,
             step_matches(get_handle_of_step(steps[k]),
                          target_handle, target_handle_rev))

\* a guard that gives up only when both the path and the node are unknown
graph_get_next_node_on_path_weak_guard(path_name, node_id) ==
    IF ~has_path(path_name) /\ ~has_node(node_id) THEN Return(-1)
    ELSE LET path_handle == get_path_handle(path_name)
             target_handle == get_handle(node_id, FALSE)
             target_handle_rev == get_handle(node_id, TRUE)
         IN  Deref({node_id}, {path_name},
                   next_node_scan(for_each_step_in_path(path_handle), 1,
                                  target_handle, target_handle_rev, FALSE))

graph_get_next_node_on_path(path_name, node_id) ==
    IF ~has_path(path_name) \/ ~has_node(node_id) THEN Return(-1)
    ELSE LET path_handle == get_path_handle(path_name)
             target_handle == get_handle(node_id, FALSE)
             target_handle_rev == get_handle(node_id, TRUE)
         IN  Deref({node_id}, {path_name},
                   next_node_scan(for_each_step_in_path(path_handle), 1,
                                  target_handle, target_handle_rev, FALSE))

-----------------------------------------------------------------------------
(* graph_get_path_length *)

\* a scan that counts forward steps only
RECURSIVE path_length_scan_forward_only(_, _, _)
path_length_scan_forward_only(steps, k, path_len) ==
    IF k > Len(steps) THEN path_len
    ELSE path_length_scan_forward_only(steps, k + 1,
             IF get_is_reverse(get_handle_of_step(steps[k]))
             THEN path_len
             ELSE path_len + get_length(get_handle_of_step(steps[k])))

RECURSIVE path_length_scan(_, _, _)
path_length_scan(steps, k, path_len) ==
    IF k > Len(steps) THEN path_len
    ELSE path_length_scan(steps, k + 1,
                          path_len + get_length(get_handle_of_step(steps[k])))

graph_get_path_length(path_name) ==
    IF ~has_path(path_name) THEN Return(0)
    ELSE LET path == get_path_handle(path_name)
         IN  Deref({}, {path_name},
                   path_length_scan(for_each_step_in_path(path), 1, 0))

-----------------------------------------------------------------------------
(* graph_get_paths_on_edge *)

\* std::string's operator<: bytewise lexicographic, a proper prefix first
RECURSIVE StringLess(_, _)
StringLess(a, b) ==
    IF b = <<>> THEN FALSE
    ELSE IF a = <<>> THEN TRUE
    ELSE IF Head(a) # Head(b) THEN Head(a) < Head(b)
    ELSE StringLess(Tail(a), Tail(b))

RECURSIVE InsertSorted(_, _)
InsertSorted(s, x) ==
    IF s = <<>> THEN <<x>>
    ELSE IF StringLess(x, Head(s)) THEN <<x>> \o s
    ELSE <<Head(s)>> \o InsertSorted(Tail(s), x)

\* std::sort(begin, end): the ascending arrangement of the elements
RECURSIVE std_sort(_)
std_sort(s) ==
    IF s = <<>> THEN <<>>
    ELSE InsertSorted(std_sort(Tail(s)), Head(s))

\* erase(std::unique(begin, end), end): drops an element equal to the one
\* before it
RECURSIVE std_unique(_)
std_unique(s) ==
    IF Len(s) <= 1 THEN s
    ELSE IF s[1] = s[2] THEN std_unique(Tail(s))
    ELSE <<s[1]>> \o std_unique(Tail(s))

\* the visitor of for_each_step_on_handle(from_handle): it tests the step
\* after the visited one, and nothing of the visited step itself
RECURSIVE edge_scan(_, _, _, _)
edge_scan(initial_paths, steps, k, to_handle) ==
    IF k > Len(steps) THEN initial_paths
    ELSE LET step == steps[k]
             taken == has_next_step(step)
                      /\ get_handle_of_step(get_next_step(step)) = to_handle
         IN  edge_scan(IF taken
                       THEN Append(initial_paths,
                                   get_path_name(get_path_handle_of_step(step)))
                       ELSE initial_paths,
                       steps, k + 1, to_handle)

\* std::unique with no sort before it
sort_and_dedup_unsorted(initial_paths) == std_unique(initial_paths)

sort_and_dedup(initial_paths) == std_unique(std_sort(initial_paths))

graph_get_paths_on_edge(from_node, from_is_forward, to_node, to_is_forward) ==
    IF ~has_node(from_node) \/ ~has_node(to_node) THEN Return(<<>>)
    ELSE LET from_is_reverse == ~from_is_forward
             to_is_reverse == ~to_is_forward
             from_handle == get_handle(from_node, from_is_reverse)
             to_handle == get_handle(to_node, to_is_reverse)
             initial_paths ==
                 edge_scan(<<>>, for_each_step_on_handle(from_handle), 1, to_handle)
         IN  Deref({from_node}, {}, sort_and_dedup(initial_paths))

-----------------------------------------------------------------------------
(* The calls.  Each is enabled once, on the loaded graph. *)

Call(o, a, r) ==
    /\ op = "none"
    /\ op' = o
    /\ args' = a
    /\ ret' = r.val
    /\ fault' = r.fault
    /\ UNCHANGED graph

Project ==
    \E path_name \in Names, pos \in Offsets :
        Call("project", <<path_name, pos>>, graph_project(path_name, pos))

NodeSequence ==
    \E node_id \in QueryIds :
        Call("node_sequence", <<node_id>>, graph_get_node_sequence(node_id))

NodeLen ==
    \E node_id \in QueryIds :
        Call("node_len", <<node_id>>, graph_get_node_len(node_id))

Successors ==
    \E node_id \in QueryIds :
        Call("successors", <<node_id>>, graph_get_successors(node_id))

Predecessors ==
    \E node_id \in QueryIds :
        Call("predecessors", <<node_id>>, graph_get_predecessors(node_id))

PathsOnNodeAmong(ids) ==
    \E node_id \in ids :
        Call("paths_on_node", <<node_id>>, graph_get_paths_on_node(node_id))

PathsOnNode == PathsOnNodeAmong(QueryIds)

NextNodeOnPath ==
    \E path_name \in Names, node_id \in QueryIds :
        Call("next_node_on_path", <<path_name, node_id>>,
             graph_get_next_node_on_path(path_name, node_id))

PathLength ==
    \E path_name \in Names :
        Call("path_length", <<path_name>>, graph_get_path_length(path_name))

PathsOnEdgeAmong(ids) ==
    \E from_node \in ids, from_is_forward \in BOOLEAN,
       to_node \in ids, to_is_forward \in BOOLEAN :
        Call("paths_on_edge",
             <<from_node, from_is_forward, to_node, to_is_forward>>,
             graph_get_paths_on_edge(from_node, from_is_forward,
                                     to_node, to_is_forward))

PathsOnEdge == PathsOnEdgeAmong(QueryIds)

-----------------------------------------------------------------------------
(* Loaded graphs. *)

NoCall == op = "none" /\ args = <<>> /\ ret = <<>> /\ fault = FALSE

PathsOver(ids, name, n) ==
    {<<[name |-> name, steps |-> s]>> : s \in SeqsUpTo(HandlesOf(ids), n)}

EdgesOver(ids, n) ==
    SeqsUpTo([from : HandlesOf(ids), to : HandlesOf(ids)], n)

\* graphs of one path "a" over nodes of every length: the projector, the
\* path length and the walker read one path only
InitProject ==
    /\ nodes \in [NodeIds -> {PolyA(l) : l \in 0..MaxLen}]
    /\ edges = <<>>
    /\ paths \in PathsOver(NodeIds, <<97>>, MaxSteps)
    /\ NoCall

\* graphs of one path "a" over unit-length nodes: the walker reads no length
InitWalk ==
    /\ nodes = [n \in NodeIds |-> <<"A">>]
    /\ edges = <<>>
    /\ paths \in PathsOver(NodeIds, <<97>>, MaxSteps)
    /\ NoCall

\* graphs of two paths "a" and "ab", in either store order: path membership
\* reads neither sequences nor edges
InitMember ==
    /\ nodes = [n \in 1..MemberNodes |-> <<"A">>]
    /\ edges = <<>>
    /\ \E p \in PathsOver(1..MemberNodes, <<97>>, MaxSteps),
          q \in PathsOver(1..MemberNodes, <<97, 98>>, MaxOther) :
          paths \in {p \o q, q \o p}
    /\ NoCall

\* graphs of edges between any faces, repeated edges included: adjacency
\* reads no path
InitAdjacency ==
    /\ nodes = [n \in NodeIds |-> <<"A">>]
    /\ edges \in EdgesOver(NodeIds, MaxEdges)
    /\ paths = <<>>
    /\ NoCall

\* graphs that hold any subset of the node ids, with at most one path or
\* one edge over the nodes they hold
Init ==
    /\ \E present \in SUBSET NodeIds :
          /\ nodes \in [present -> {<<"A">>, <<"C", "A">>}]
          /\ \/ /\ edges = <<>>
                /\ paths \in {<<>>} \cup
                       UNION {PathsOver(present, nm, MaxFew) : nm \in Names}
             \/ /\ edges \in {<<e>> : e \in [from : HandlesOf(present),
                                                to : HandlesOf(present)]}
                /\ paths = <<>>
    /\ NoCall

Next ==
    \/ Project
    \/ NodeSequence
    \/ NodeLen
    \/ Successors
    \/ Predecessors
    \/ PathsOnNode
    \/ NextNodeOnPath
    \/ PathLength
    \/ PathsOnEdge

Spec == Init /\ [][Next]_vars

NextProject == Project \/ PathLength

SpecProject == InitProject /\ [][NextProject]_vars

NextWalk == NextNodeOnPath

SpecWalk == InitWalk /\ [][NextWalk]_vars

\* node ids up to MemberNodes + 1, which is in no graph of InitMember
NextMember ==
    \/ PathsOnNodeAmong(1..(MemberNodes + 1))
    \/ PathsOnEdgeAmong(1..(MemberNodes + 1))

SpecMember == InitMember /\ [][NextMember]_vars

NextAdjacency == Successors \/ Predecessors

SpecAdjacency == InitAdjacency /\ [][NextAdjacency]_vars

-----------------------------------------------------------------------------
(* Properties. *)

Count(s, x) == Cardinality({i \in DOMAIN s : s[i] = x})

\* the handles of the steps of a path, in path order
StepsOf(path_name) == paths[get_path_handle(path_name)].steps

NodeLength(handle) == Len(nodes[handle.id])

\* the length of the path before its step k
RECURSIVE RunningLength(_, _)
RunningLength(steps, k) ==
    IF k <= 1 THEN 0
    ELSE RunningLength(steps, k - 1) + NodeLength(steps[k - 1])

SpanContains(steps, k, offset) ==
    /\ RunningLength(steps, k) <= offset
    /\ offset < RunningLength(steps, k) + NodeLength(steps[k])

Min(S) == CHOOSE x \in S : \A y \in S : x <= y

\* C1: for an existing path and an offset below its total length,
\* graph_project returns the position of the first step, in path order,
\* whose span [running_length, running_length + node_length) holds the
\* offset: that step's node id, the offset within the step (mirrored to
\* node_length - 1 - offset_in_step on a reverse step), the step's
\* forwardness, and an offset below the node's length.
ProjectFirstSpan ==
    (op = "project" /\ has_path(args[1])
        /\ args[2] < RunningLength(StepsOf(args[1]), Len(StepsOf(args[1])) + 1))
    => LET steps == StepsOf(args[1])
           offset == args[2]
       IN  \E k \in 1..Len(steps) :
              /\ SpanContains(steps, k, offset)
              /\ \A j \in 1..(k - 1) : ~SpanContains(steps, j, offset)
              /\ LET offset_in_step == offset - RunningLength(steps, k)
                 IN  ret = << [node_id |-> steps[k].id,
                               offset |-> IF steps[k].rev
                                          THEN NodeLength(steps[k]) - 1 - offset_in_step
                                          ELSE offset_in_step,
                               is_forward |-> ~steps[k].rev] >>
              /\ ret[1].offset >= 0
              /\ ret[1].offset < NodeLength(steps[k])

\* a projection onto a reverse step of a node the path visited before, past
\* a zero-length node, whose mirrored offset differs from the offset in step
ProjectFirstSpanWitness ==
    /\ op = "project"
    /\ has_path(args[1])
    /\ ret # nullptr
    /\ LET steps == StepsOf(args[1])
       IN  \E k \in 1..Len(steps) :
              /\ SpanContains(steps, k, args[2])
              /\ steps[k].rev
              /\ ret[1].offset # args[2] - RunningLength(steps, k)
              /\ \E j \in 1..(k - 1) : steps[j].id = steps[k].id
              /\ \E j \in 1..(k - 1) : NodeLength(steps[j]) = 0

\* C7: graph_project returns null exactly when the path is unknown or the
\* offset is at or past graph_get_path_length of the path.
ProjectNullIffOutOfRange ==
    op = "project"
    => (ret = nullptr
        <=> (~has_path(args[1]) \/ args[2] >= graph_get_path_length(args[1]).val))

\* the last offset of a path is found although the path holds a zero-length
\* node
ProjectNullWitness ==
    /\ op = "project"
    /\ has_path(args[1])
    /\ args[2] + 1 = graph_get_path_length(args[1]).val
    /\ \E k \in 1..Len(StepsOf(args[1])) : NodeLength(StepsOf(args[1])[k]) = 0
    /\ ret # nullptr

\* the sum of graph_get_node_len over the steps
RECURSIVE SumNodeLen(_)
SumNodeLen(steps) ==
    IF steps = <<>> THEN 0
    ELSE graph_get_node_len(Head(steps).id).val + SumNodeLen(Tail(steps))

\* C8: graph_get_path_length of an existing path is the sum of
\* graph_get_node_len over its steps, a node counted once per visit,
\* whatever the orientation of the visit.
PathLengthIsSum ==
    (op = "path_length" /\ has_path(args[1]))
    => ret = SumNodeLen(StepsOf(args[1]))

\* a path that visits a node of positive length forward and in reverse
PathLengthWitness ==
    /\ op = "path_length"
    /\ has_path(args[1])
    /\ LET steps == StepsOf(args[1])
       IN  \E j, k \in 1..Len(steps) :
              /\ j # k
              /\ steps[j].id = steps[k].id
              /\ steps[j].rev # steps[k].rev
              /\ NodeLength(steps[j]) > 0
              /\ ret >= 2 * NodeLength(steps[j])

\* C6: graph_get_next_node_on_path answers for the first step on the node,
\* in either orientation: the node of the step after it, or -1 when the path
\* has no step on the node or that first step is the last of the path.
NextNodeFirstMatch ==
    (op = "next_node_on_path" /\ has_path(args[1]) /\ has_node(args[2]))
    => LET steps == StepsOf(args[1])
           on_node == {i \in 1..Len(steps) : steps[i].id = args[2]}
       IN  IF on_node = {} \/ Min(on_node) = Len(steps)
           THEN ret = -1
           ELSE ret = steps[Min(on_node) + 1].id

\* the node is first met in reverse, is met again later, and the answer is
\* the node after the first visit, not after the last
NextNodeWitness ==
    /\ op = "next_node_on_path"
    /\ has_path(args[1])
    /\ LET steps == StepsOf(args[1])
       IN  /\ Len(steps) = 3
           /\ steps[1] = get_handle(args[2], TRUE)
           /\ steps[3].id = args[2]
           /\ steps[2].id # args[2]
           /\ ret = steps[2].id

\* a is before b in lexicographic order
LexBefore(a, b) ==
    \E i \in 1..Len(b) :
       /\ \A j \in 1..(i - 1) : j <= Len(a) /\ a[j] = b[j]
       /\ (i > Len(a) \/ (i - 1 < Len(a) /\ a[i] < b[i]))

\* C3: the list graph_get_paths_on_edge returns is in strictly ascending
\* lexicographic order, so sorted and free of repeated names.
PathsOnEdgeStrictlyAscending ==
    op = "paths_on_edge"
    => \A i \in 1..(Len(ret) - 1) : LexBefore(ret[i], ret[i + 1])

\* both paths take the edge, the store holds "ab" before "a", and "a" takes
\* the edge twice
PathsOnEdgeWitness ==
    /\ op = "paths_on_edge"
    /\ Len(ret) = 2
    /\ Len(paths) = 2
    /\ paths[1].name = <<97, 98>>
    /\ LET from_handle == get_handle(args[1], ~args[2])
           to_handle == get_handle(args[3], ~args[4])
           steps == paths[2].steps
       IN  Cardinality({k \in 1..(Len(steps) - 1) :
                           steps[k] = from_handle /\ steps[k + 1] = to_handle}) = 2

\* C2: graph_get_paths_on_edge returns a path name exactly when the path
\* has two consecutive steps whose handles are the queried from handle and
\* the queried to handle.
PathsOnEdgeExactHandles ==
    (op = "paths_on_edge" /\ has_node(args[1]) /\ has_node(args[3]))
    => LET from_handle == get_handle(args[1], ~args[2])
           to_handle == get_handle(args[3], ~args[4])
       IN  \A p \in 1..Len(paths) :
              Count(ret, paths[p].name) > 0
              <=> \E k \in 1..(Len(paths[p].steps) - 1) :
                     /\ paths[p].steps[k] = from_handle
                     /\ paths[p].steps[k + 1] = to_handle

\* C4: graph_get_paths_on_node of an existing node holds the name of each
\* path once per step of the path on the node, in either orientation.
PathsOnNodePerStep ==
    (op = "paths_on_node" /\ has_node(args[1]))
    => /\ \A p \in 1..Len(paths) :
             Count(ret, paths[p].name)
             = Cardinality({k \in 1..Len(paths[p].steps) :
                               paths[p].steps[k].id = args[1]})
       /\ \A i \in 1..Len(ret) : has_path(ret[i])

\* a path named twice, for a forward and for a reverse step on the node
PathsOnNodeWitness ==
    /\ op = "paths_on_node"
    /\ \E p \in 1..Len(paths) :
          /\ Count(ret, paths[p].name) = 2
          /\ \E j, k \in 1..Len(paths[p].steps) :
                /\ paths[p].steps[j] = get_handle(args[1], FALSE)
                /\ paths[p].steps[k] = get_handle(args[1], TRUE)

\* C5: (b, f, t) is in graph_get_successors(a) as many times as (a, f, t)
\* is in graph_get_predecessors(b), for all existing nodes a and b and all
\* flags f and t.
SuccessorsPredecessorsInverse ==
    /\ (op = "successors" /\ has_node(args[1]))
       => \A b \in DOMAIN nodes, f \in BOOLEAN, t \in BOOLEAN :
             Count(ret, <<b, f, t>>)
             = Count(graph_get_predecessors(b).val, <<args[1], f, t>>)
    /\ (op = "predecessors" /\ has_node(args[1]))
       => \A a \in DOMAIN nodes, f \in BOOLEAN, t \in BOOLEAN :
             Count(graph_get_successors(a).val, <<args[1], f, t>>)
             = Count(ret, <<a, f, t>>)

\* the predecessors of a node with a self-loop between opposite faces and
\* an edge from another node into its reverse face
InverseWitness ==
    /\ op = "predecessors"
    /\ Count(ret, <<args[1], TRUE, FALSE>>) > 0
    /\ \E a \in DOMAIN nodes :
          a # args[1] /\ Count(ret, <<a, TRUE, FALSE>>) + Count(ret, <<a, FALSE, FALSE>>) > 0

\* C9: graph_get_successors of an existing node is one descriptor
\* (neighbour id, TRUE, neighbour is forward) per edge out of the forward
\* handle, in store order, then one descriptor (neighbour id, FALSE,
\* neighbour is forward) per edge out of the reverse handle; its length is
\* the sum of the two out-degrees.
SuccessorsBothFaces ==
    (op = "successors" /\ has_node(args[1]))
    => LET out_fwd == follow_edges(get_handle(args[1], FALSE), FALSE)
           out_rev == follow_edges(get_handle(args[1], TRUE), FALSE)
       IN  /\ Len(ret) = Len(out_fwd) + Len(out_rev)
           /\ \A i \in 1..Len(out_fwd) :
                 ret[i] = <<out_fwd[i].id, TRUE, ~out_fwd[i].rev>>
           /\ \A i \in 1..Len(out_rev) :
                 ret[Len(out_fwd) + i] = <<out_rev[i].id, FALSE, ~out_rev[i].rev>>

\* a node with an edge out of each face, towards a forward and a reverse
\* neighbour
SuccessorsWitness ==
    /\ op = "successors"
    /\ Len(ret) = 2
    /\ ret[1][2] = TRUE
    /\ ret[2][2] = FALSE
    /\ ret[1][3] # ret[2][3]

\* C10: no call dereferences a node or a path the graph does not hold, and
\* a call given an unknown identifier returns its sentinel: "" for
\* node_sequence, 0 for node_len and path_length, the empty list for
\* successors, predecessors, paths_on_node and paths_on_edge, -1 for
\* next_node_on_path, null for project.
UnknownGivesSentinel ==
    /\ fault = FALSE
    /\ (op = "node_sequence" /\ ~has_node(args[1])) => ret = <<>>
    /\ (op = "node_len" /\ ~has_node(args[1])) => ret = 0
    /\ (op = "successors" /\ ~has_node(args[1])) => ret = <<>>
    /\ (op = "predecessors" /\ ~has_node(args[1])) => ret = <<>>
    /\ (op = "paths_on_node" /\ ~has_node(args[1])) => ret = <<>>
    /\ (op = "paths_on_edge" /\ (~has_node(args[1]) \/ ~has_node(args[3])))
       => ret = <<>>
    /\ (op = "next_node_on_path" /\ (~has_path(args[1]) \/ ~has_node(args[2])))
       => ret = -1
    /\ (op = "project" /\ ~has_path(args[1])) => ret = nullptr
    /\ (op = "path_length" /\ ~has_path(args[1])) => ret = 0

\* next_node_on_path with a node the graph holds and a path it does not,
\* while it holds another path through that node
SentinelWitness ==
    /\ op = "next_node_on_path"
    /\ ~has_path(args[1])
    /\ has_node(args[2])
    /\ \E p \in 1..Len(paths) :
          \E k \in 1..Len(paths[p].steps) : paths[p].steps[k].id = args[2]
    /\ ret = -1

====
